---- MODULE Spec2Model ----
(***************************************************************************)
(* The item service of main.go: a MemoryStore (a map from id to Item, a    *)
(* next-id counter and one sync.RWMutex) behind five HTTP handlers.  Each  *)
(* handler goroutine serves one request at a time; the store methods are   *)
(* modelled statement by statement, so that their atomicity comes from the *)
(* lock and not from the grain of the model.                               *)
(***************************************************************************)
EXTENDS Integers, Sequences, FiniteSets, TLC

\* Number of handler goroutines serving requests at the same time.
NumHandlers == 2
\* The paths /items/{id} that clients ask for have ids 1..MaxID.
MaxID == 2
\* Number of requests the server accepts in a run.
MaxRequests == 3

Handlers == 1..NumHandlers

VARIABLES
    items,    \* MemoryStore.items: a function from the present ids to Items
    nextID,   \* MemoryStore.nextID
    mu,       \* MemoryStore.mu: [w: the handler holding the write lock, 0 for none; r: the handlers holding a read lock]
    pc,       \* where each handler stands
    req,      \* the request each handler serves: method and URL path
    body,     \* the request body the handler has read
    item,     \* the handler's local `item`, decoded from the body
    newID,    \* AddItem's newItem.ID, then the handler's `id` in addItemHandler
    out,      \* the Items GetItem / GetItems returned
    status,   \* the HTTP status the handler answers with
    created,  \* history: the ids AddItem assigned, in the order of its writes
    deleted,  \* history: the ids DeleteItem removed
    fresh,    \* history: name and value of the ids created and neither updated nor deleted since
    accepted  \* history: the number of requests accepted so far

store == <<items, nextID>>
locals == <<req, body, item, newID, out, status>>
history == <<created, deleted, fresh, accepted>>
vars == <<items, nextID, mu, pc, req, body, item, newID, out, status, created, deleted, fresh, accepted>>

----------------------------------------------------------------------------
\* Data

ZeroItem == [ID |-> 0, Name |-> "", Value |-> 0]

\* A JSON body: ok is whether it parses as an item object; each field is
\* <<>> when the object does not carry it and <<v>> when it carries v.
\* Garbage is a body Decode fails on (the empty body, a value of the wrong
\* type, text that is not JSON).
Garbage == [ok |-> FALSE, id |-> <<>>, name |-> <<>>, value |-> <<>>]

Object(i, n, v) == [ok |-> TRUE, id |-> i, name |-> n, value |-> v]

\* The bodies clients send with a create: one that does not parse, the
\* empty object, and objects with and without an id field, with a negative,
\* a positive and no value.
CreateBodies ==
    {Garbage,
     Object(<<>>, <<>>, <<>>),
     Object(<<>>, <<"a">>, <<1>>),
     Object(<<>>, <<"a">>, <<-1>>),
     Object(<<7>>, <<"a">>, <<>>)}

\* The bodies clients send with an update: one that does not parse, and
\* objects with and without an id field, with a negative and no value.
UpdateBodies ==
    {Garbage,
     Object(<<>>, <<"a">>, <<-1>>),
     Object(<<7>>, <<"a">>, <<>>)}

Bodies(op) == IF op = "add" THEN CreateBodies ELSE UpdateBodies

\* json.Decoder.Decode into a zero Item: a field the object lacks keeps its
\* zero value.
Decode(b) ==
    [ID |-> IF b.id = <<>> THEN ZeroItem.ID ELSE b.id[1],
     Name |-> IF b.name = <<>> THEN ZeroItem.Name ELSE b.name[1],
     Value |-> IF b.value = <<>> THEN ZeroItem.Value ELSE b.value[1]]

DigitChars == <<"0", "1", "2", "3", "4", "5", "6", "7", "8", "9">>

IsDigit(c) == \E i \in 1..Len(DigitChars) : DigitChars[i] = c

DigitValue(c) == (CHOOSE i \in 1..Len(DigitChars) : DigitChars[i] = c) - 1

RECURSIVE DigitsValue(_)
DigitsValue(s) ==
    IF s = <<>> THEN 0
    ELSE 10 * DigitsValue(SubSeq(s, 1, Len(s) - 1)) + DigitValue(s[Len(s)])

Unsigned(s) == IF s # <<>> /\ s[1] \in {"+", "-"} THEN Tail(s) ELSE s

\* strconv.Atoi: an optional sign and at least one digit, nothing else.
AtoiOk(s) ==
    /\ Unsigned(s) # <<>>
    /\ \A i \in 1..Len(Unsigned(s)) : IsDigit(Unsigned(s)[i])

Atoi(s) ==
    IF s # <<>> /\ s[1] = "-" THEN 0 - DigitsValue(Unsigned(s))
    ELSE DigitsValue(Unsigned(s))

\* The decimal ids of the paths /items/{id}.
IdStrs == {<<DigitChars[i + 1]>> : i \in 1..MaxID}

\* The requests clients send: method and path, the path as the registered
\* pattern it falls under and what follows it.
Request(m, p, s) == [method |-> m, prefix |-> p, rest |-> s]

Requests ==
    {Request(m, "/items/", s) : m \in {"GET", "PUT", "DELETE"}, s \in IdStrs \cup {<<"x">>}} \cup
    {Request(m, "/items/", <<>>) : m \in {"GET", "POST", "PATCH"}} \cup
    {Request(m, "/items", <<>>) : m \in {"GET", "POST"}}

NoRequest == Request("", "", <<>>)

----------------------------------------------------------------------------
\* Routing

\* The mux of main: the subtree pattern "/items/" switches on the method,
\* the exact pattern "/items" goes to getItemsHandler whatever the method.
Route(r) ==
    IF r.prefix = "/items" THEN "list"
    ELSE IF r.prefix = "/items/" THEN
        CASE r.method = "GET" -> IF r.rest = <<>> THEN "list" ELSE "get"
          [] r.method = "POST" -> "add"
          [] r.method = "PUT" -> "update"
          [] r.method = "DELETE" -> "delete"
          [] OTHER -> "notallowed"
    ELSE "nomatch"

\* idStr := r.URL.Path[len("/items/"):]
IdStr(h) == req[h].rest

Id(h) == Atoi(IdStr(h))

Op(h) == Route(req[h])

----------------------------------------------------------------------------
\* The lock

\* A handler is inside the store from the moment its Lock or RLock returns
\* until its deferred Unlock or RUnlock.
Inside(h) == pc[h] \in {"in", "in2"}

IsWrite(h) == Op(h) \in {"add", "update", "delete"}

IsRead(h) == Op(h) \in {"get", "list"}

\* Mutant: RLock that does not wait for the writer inside.
RLockFree_Always == TRUE

\* RWMutex.RLock returns when no writer holds the lock.  (Go also holds a
\* reader back while a writer waits; that removes behaviours, and adds none.)
RLockFree == mu.w = 0

\* RWMutex.Lock returns when neither a writer nor a reader holds the lock.
LockFree == mu.w = 0 /\ mu.r = {}

\* What the handler holds of the lock.
HoldsLock(h) == mu.w = h \/ h \in mu.r

\* Mutant: the deferred Unlock / RUnlock is missing.
Released_Forgotten(h) == mu

\* The lock once the handler's deferred Unlock / RUnlock has run.
Released(h) == [w |-> IF mu.w = h THEN 0 ELSE mu.w, r |-> mu.r \ {h}]

----------------------------------------------------------------------------
\* The handlers, up to the store call

\* The handler's first statements: parse the id where the route has one.
FirstPC(r) ==
    CASE Route(r) \in {"nomatch", "notallowed"} -> "respond"
      [] Route(r) = "list" -> "rlock"
      [] Route(r) = "add" -> "readbody"
      [] Route(r) = "get" -> IF AtoiOk(r.rest) THEN "rlock" ELSE "respond"
      [] Route(r) = "update" -> IF AtoiOk(r.rest) THEN "readbody" ELSE "respond"
      [] Route(r) = "delete" -> IF AtoiOk(r.rest) THEN "lock" ELSE "respond"

FirstStatus(r) ==
    CASE Route(r) = "nomatch" -> 404
      [] Route(r) = "notallowed" -> 405
      [] Route(r) \in {"get", "update", "delete"} /\ ~AtoiOk(r.rest) -> 400
      [] OTHER -> 0

\* A request arrives and the mux dispatches it.
Receive(h) ==
    /\ pc[h] = "idle"
    /\ accepted < MaxRequests
    /\ accepted' = accepted + 1
    /\ \E r \in Requests :
        /\ req' = [req EXCEPT ![h] = r]
        /\ pc' = [pc EXCEPT ![h] = FirstPC(r)]
        /\ status' = [status EXCEPT ![h] = FirstStatus(r)]
    /\ UNCHANGED <<store, mu, body, item, newID, out, created, deleted, fresh>>

\* Mutant: the check of the value is missing.
CreateRejected_NameOnly(it) == it.Name = ""

\* addItemHandler's basic validation.
CreateRejected(it) == it.Name = "" \/ it.Value < 0

\* json.NewDecoder(r.Body).Decode(&item): the client's body arrives and is
\* decoded, and on create validated; a bad request is answered 400.
ReadBody(h) ==
    /\ pc[h] = "readbody"
    /\ \E b \in Bodies(Op(h)) :
        /\ body' = [body EXCEPT ![h] = b]
        /\ IF ~b.ok
           THEN /\ pc' = [pc EXCEPT ![h] = "respond"]
                /\ status' = [status EXCEPT ![h] = 400]
                /\ item' = item
           ELSE /\ item' = [item EXCEPT ![h] = Decode(b)]
                /\ IF Op(h) = "add" /\ CreateRejected(Decode(b))
                   THEN /\ pc' = [pc EXCEPT ![h] = "respond"]
                        /\ status' = [status EXCEPT ![h] = 400]
                   ELSE /\ pc' = [pc EXCEPT ![h] = "lock"]
                        /\ status' = status
    /\ UNCHANGED <<store, mu, req, newID, out, history>>

----------------------------------------------------------------------------
\* The store methods.  A method's last statement and its deferred Unlock /
\* RUnlock are one step, which also returns to the handler, and the handler
\* picks its status.

\* The status the handler answers with once the store method has returned.
StatusOf(op, failed) ==
    CASE op = "get" -> IF failed THEN 404 ELSE 200
      [] op = "list" -> 200
      [] op = "add" -> 201
      [] op = "update" -> IF failed THEN 404 ELSE 204
      [] op = "delete" -> IF failed THEN 404 ELSE 204

Return(h, failed) ==
    /\ mu' = Released(h)
    /\ status' = [status EXCEPT ![h] = StatusOf(Op(h), failed)]
    /\ pc' = [pc EXCEPT ![h] = "respond"]

\* s.mu.RLock()
RLock(h) ==
    /\ pc[h] = "rlock"
    /\ RLockFree
    /\ mu' = [mu EXCEPT !.r = @ \cup {h}]
    /\ pc' = [pc EXCEPT ![h] = "in"]
    /\ UNCHANGED <<store, locals, history>>

\* s.mu.Lock()
Lock(h) ==
    /\ pc[h] = "lock"
    /\ LockFree
    /\ mu' = [mu EXCEPT !.w = h]
    /\ pc' = [pc EXCEPT ![h] = "in"]
    /\ UNCHANGED <<store, locals, history>>

\* item, ok := s.items[id]
Present(id) == id \in DOMAIN items

\* GetItem between RLock and RUnlock
GetRead(h) ==
    /\ pc[h] = "in" /\ Op(h) = "get"
    /\ out' = [out EXCEPT ![h] = IF Present(Id(h)) THEN {items[Id(h)]} ELSE {ZeroItem}]
    /\ Return(h, ~Present(Id(h)))
    /\ UNCHANGED <<store, req, body, item, newID, history>>

\* GetItems between RLock and RUnlock; the slice's order is that of Go's
\* map iteration, which is unspecified: the result is kept as a set.
ListRead(h) ==
    /\ pc[h] = "in" /\ Op(h) = "list"
    /\ out' = [out EXCEPT ![h] = {items[k] : k \in DOMAIN items}]
    /\ Return(h, FALSE)
    /\ UNCHANGED <<store, req, body, item, newID, history>>

\* Mutant: the value is not copied into the new item.
NewItem_NoValue(it) == [ID |-> nextID, Name |-> it.Name, Value |-> 0]

\* newItem := Item{ID: s.nextID, Name: item.Name, Value: item.Value}
NewItem(it) == [ID |-> nextID, Name |-> it.Name, Value |-> it.Value]

\* AddItem: s.items[s.nextID] = newItem
AddStore(h) ==
    /\ pc[h] = "in" /\ Op(h) = "add"
    /\ items' = [k \in DOMAIN items \cup {nextID} |-> IF k = nextID THEN NewItem(item[h]) ELSE items[k]]
    /\ newID' = [newID EXCEPT ![h] = NewItem(item[h]).ID]
    /\ created' = Append(created, NewItem(item[h]).ID)
    /\ fresh' = [k \in DOMAIN fresh \cup {NewItem(item[h]).ID} |->
                    IF k = NewItem(item[h]).ID THEN [Name |-> item[h].Name, Value |-> item[h].Value] ELSE fresh[k]]
    /\ pc' = [pc EXCEPT ![h] = "in2"]
    /\ UNCHANGED <<nextID, mu, req, body, item, out, status, deleted, accepted>>

\* Mutant: the counter is not incremented.
AddIncr_NoIncrement(h) ==
    /\ pc[h] = "in2" /\ Op(h) = "add"
    /\ nextID' = nextID
    /\ Return(h, FALSE)
    /\ UNCHANGED <<items, req, body, item, newID, out, history>>

\* AddItem: s.nextID++; return newItem.ID, nil
AddIncr(h) ==
    /\ pc[h] = "in2" /\ Op(h) = "add"
    /\ nextID' = nextID + 1
    /\ Return(h, FALSE)
    /\ UNCHANGED <<items, req, body, item, newID, out, history>>

\* Mutant: the presence check is missing, the update goes on to write.
UpdCheck_NoCheck(h) ==
    /\ pc[h] = "in" /\ Op(h) = "update"
    /\ pc' = [pc EXCEPT ![h] = "in2"]
    /\ UNCHANGED <<mu, status>>
    /\ UNCHANGED <<store, req, body, item, newID, out, history>>

\* UpdateItem: if _, ok := s.items[id]; !ok { return error }
UpdCheck(h) ==
    /\ pc[h] = "in" /\ Op(h) = "update"
    /\ IF Present(Id(h))
       THEN /\ pc' = [pc EXCEPT ![h] = "in2"]
            /\ UNCHANGED <<mu, status>>
       ELSE Return(h, TRUE)
    /\ UNCHANGED <<store, req, body, item, newID, out, history>>

\* Mutant: the payload's id is kept.
WithID_Payload(id, it) == it

\* item.ID = id, on UpdateItem's own copy of the item
WithID(id, it) == [it EXCEPT !.ID = id]

\* UpdateItem: s.items[id] = item; return nil
UpdWrite(h) ==
    /\ pc[h] = "in2" /\ Op(h) = "update"
    /\ items' = [k \in DOMAIN items \cup {Id(h)} |-> IF k = Id(h) THEN WithID(Id(h), item[h]) ELSE items[k]]
    /\ fresh' = [k \in DOMAIN fresh \ {Id(h)} |-> fresh[k]]
    /\ Return(h, FALSE)
    /\ UNCHANGED <<nextID, req, body, item, newID, out, created, deleted, accepted>>

\* DeleteItem: if _, ok := s.items[id]; !ok { return error }
DelCheck(h) ==
    /\ pc[h] = "in" /\ Op(h) = "delete"
    /\ IF Present(Id(h))
       THEN /\ pc' = [pc EXCEPT ![h] = "in2"]
            /\ UNCHANGED <<mu, status>>
       ELSE Return(h, TRUE)
    /\ UNCHANGED <<store, req, body, item, newID, out, history>>

\* Mutant: deleting the newest item gives its id back to the counter.
DelRemove_ReclaimsID(h) ==
    /\ pc[h] = "in2" /\ Op(h) = "delete"
    /\ items' = [k \in DOMAIN items \ {Id(h)} |-> items[k]]
    /\ nextID' = IF Id(h) = nextID - 1 THEN Id(h) ELSE nextID
    /\ deleted' = deleted \cup (DOMAIN items \cap {Id(h)})
    /\ fresh' = [k \in DOMAIN fresh \ {Id(h)} |-> fresh[k]]
    /\ Return(h, FALSE)
    /\ UNCHANGED <<req, body, item, newID, out, created, accepted>>

\* DeleteItem: delete(s.items, id); return nil
DelRemove(h) ==
    /\ pc[h] = "in2" /\ Op(h) = "delete"
    /\ items' = [k \in DOMAIN items \ {Id(h)} |-> items[k]]
    /\ deleted' = deleted \cup (DOMAIN items \cap {Id(h)})
    /\ fresh' = [k \in DOMAIN fresh \ {Id(h)} |-> fresh[k]]
    /\ Return(h, FALSE)
    /\ UNCHANGED <<nextID, req, body, item, newID, out, created, accepted>>

\* The response is written to the client and the handler returns.  (Encode
\* of an Item, a slice of Items or a map of ints cannot fail to marshal.)
Respond(h) ==
    /\ pc[h] = "respond"
    /\ pc' = [pc EXCEPT ![h] = "idle"]
    /\ req' = [req EXCEPT ![h] = NoRequest]
    /\ body' = [body EXCEPT ![h] = Garbage]
    /\ item' = [item EXCEPT ![h] = ZeroItem]
    /\ newID' = [newID EXCEPT ![h] = 0]
    /\ out' = [out EXCEPT ![h] = {}]
    /\ status' = [status EXCEPT ![h] = 0]
    /\ UNCHANGED <<store, mu, history>>

\* The handler waits for the client: for its body, or for it to take the
\* response.
AtClientIO(h) == pc[h] \in {"readbody", "respond"}

----------------------------------------------------------------------------
\* The system

\* NewMemoryStore, and every handler idle.
Init ==
    /\ items = <<>>
    /\ nextID = 1
    /\ mu = [w |-> 0, r |-> {}]
    /\ pc = [h \in Handlers |-> "idle"]
    /\ req = [h \in Handlers |-> NoRequest]
    /\ body = [h \in Handlers |-> Garbage]
    /\ item = [h \in Handlers |-> ZeroItem]
    /\ newID = [h \in Handlers |-> 0]
    /\ out = [h \in Handlers |-> {}]
    /\ status = [h \in Handlers |-> 0]
    /\ created = <<>>
    /\ deleted = {}
    /\ fresh = <<>>
    /\ accepted = 0

HandlerStep(h) ==
    \/ Receive(h)
    \/ ReadBody(h)
    \/ RLock(h)
    \/ Lock(h)
    \/ GetRead(h)
    \/ ListRead(h)
    \/ AddStore(h)
    \/ AddIncr(h)
    \/ UpdCheck(h)
    \/ UpdWrite(h)
    \/ DelCheck(h)
    \/ DelRemove(h)
    \/ Respond(h)

Next == \E h \in Handlers : HandlerStep(h)

Spec == Init /\ [][Next]_vars

\* The Go scheduler lets every runnable goroutine run; clients send their
\* bodies and read their responses, and send requests while the server
\* accepts them.
FairSpec == Spec /\ \A h \in Handlers : WF_vars(HandlerStep(h))

----------------------------------------------------------------------------
\* Properties

\* Handler h takes a step.
Steps(h) == pc'[h] # pc[h]

\* Handler h leaves the position p.
Leaves(h, p) == pc[h] = p /\ pc'[h] # p

Range(f) == {f[k] : k \in DOMAIN f}

\* C1: the ids create assigns, in the order of the store operations, are
\* strictly increasing (hence pairwise different), start at 1 and are never
\* 0; a create answered 201 returns one of them, and no two creates return
\* the same id.
C1_IdsUniqueIncreasing ==
    /\ \A i, j \in 1..Len(created) : i < j => created[i] < created[j]
    /\ created # <<>> => created[1] = 1
    /\ 0 \notin Range(created)
    /\ \A h \in Handlers : Op(h) = "add" /\ pc[h] \in {"in2", "respond"} /\ status[h] # 400 =>
        /\ newID[h] \in Range(created)
        /\ \A g \in Handlers \ {h} :
            Op(g) = "add" /\ pc[g] \in {"in2", "respond"} /\ status[g] # 400 => newID[g] # newID[h]

\* Two creates have been answered, the later with id 2.
C1_Witness ==
    /\ created = <<1, 2>>
    /\ \E h \in Handlers : Op(h) = "add" /\ pc[h] = "respond" /\ status[h] = 201 /\ newID[h] = 2

\* C2: an id that delete has removed is not in the store again after any
\* step, and a get or a delete whose store operation runs on such an id is
\* answered 404.
C2_DeletedStaysGone ==
    [][/\ deleted' \cap DOMAIN items' = {}
       /\ \A h \in Handlers :
            Leaves(h, "in") /\ Op(h) \in {"get", "delete"} /\ Id(h) \in deleted =>
                pc'[h] = "respond" /\ status'[h] = 404]_vars

\* A get is inside the store for an id deleted before, and a delete of that
\* id was answered 204.
C2_Witness ==
    \E h \in Handlers :
        /\ Op(h) = "get" /\ pc[h] = "in" /\ Id(h) \in deleted
        /\ \E g \in Handlers : Op(g) = "delete" /\ pc[g] = "respond" /\ status[g] = 204 /\ Id(g) = Id(h)

\* C3: after every step each entry stored under key k has ID k, and the
\* write of an update stores the payload's name and value under the id of
\* the path.
C3_UpdateKeepsId ==
    [][/\ \A k \in DOMAIN items' : items'[k].ID = k
       /\ \A h \in Handlers :
            Leaves(h, "in2") /\ Op(h) = "update" =>
                /\ Id(h) \in DOMAIN items'
                /\ items'[Id(h)] = [ID |-> Id(h), Name |-> item[h].Name, Value |-> item[h].Value]]_vars

\* An update whose payload carries another id has been stored.
C3_Witness ==
    \E h \in Handlers :
        /\ Op(h) = "update" /\ pc[h] = "respond" /\ status[h] = 204
        /\ body[h].id # <<>> /\ body[h].id[1] # Id(h)
        /\ Id(h) \in DOMAIN items
        /\ items[Id(h)] = [ID |-> Id(h), Name |-> body[h].name[1], Value |-> 0]

\* C4: a get whose store operation runs on an id that a create returned,
\* and that no update or delete has touched since, is answered 200 with
\* the Item carrying that id and the name and value of the create's payload.
C4_RoundTrip ==
    [][\A h \in Handlers :
            Leaves(h, "in") /\ Op(h) = "get" /\ Id(h) \in DOMAIN fresh =>
                /\ pc'[h] = "respond" /\ status'[h] = 200
                /\ out'[h] = {[ID |-> Id(h), Name |-> fresh[Id(h)].Name, Value |-> fresh[Id(h)].Value]}]_vars

\* A get of a created, untouched id has been answered with a positive value.
C4_Witness ==
    \E h \in Handlers :
        /\ Op(h) = "get" /\ pc[h] = "respond" /\ status[h] = 200
        /\ Id(h) \in DOMAIN fresh
        /\ out[h] = {[ID |-> Id(h), Name |-> "a", Value |-> 1]}

\* A create payload that validation rejects: it does not parse, or its name
\* is missing or empty, or its value is negative.
InvalidCreate(b) ==
    \/ ~b.ok
    \/ b.name = <<>> \/ b.name = <<"">>
    \/ (b.value # <<>> /\ b.value[1] < 0)

\* C5: a create whose body is invalid is answered 400 as soon as the body
\* is read, and neither that step nor the writing of the 400 response
\* changes the items or the counter.
C5_RejectedCreateNoEffect ==
    [][\A h \in Handlers : Op(h) = "add" =>
            /\ Leaves(h, "readbody") /\ InvalidCreate(body'[h]) =>
                    pc'[h] = "respond" /\ status'[h] = 400 /\ UNCHANGED store
            /\ Leaves(h, "respond") /\ status[h] = 400 => UNCHANGED store]_vars

\* A create with a negative value is being answered 400 after an earlier
\* create got id 1, and the counter still stands at 2.
C5_Witness ==
    \E h \in Handlers :
        /\ Op(h) = "add" /\ pc[h] = "respond" /\ status[h] = 400
        /\ body[h].value = <<-1>>
        /\ created = <<1>> /\ nextID = 2

\* The paths the mux has a route for.
Matched(r) == r.prefix \in {"/items", "/items/"}

\* The methods the routes are documented to support.
Supported(r) ==
    \/ r.prefix = "/items" /\ r.method = "GET"
    \/ r.prefix = "/items/" /\ r.method \in {"GET", "POST", "PUT", "DELETE"}

\* C6: a request on a registered route with a method the route does not
\* support is answered 405 at once, without a store operation.
C6_UnsupportedMethod405 ==
    \A h \in Handlers :
        pc[h] # "idle" /\ Matched(req[h]) /\ ~Supported(req[h]) =>
            pc[h] = "respond" /\ status[h] = 405

\* C7: every stored Item has a non-negative value and a non-negative id.
C7_NonNegative ==
    \A k \in DOMAIN items : items[k].Value >= 0 /\ items[k].ID >= 0

\* The id has never been in the store.
NeverPresent(id) == id \notin DOMAIN items /\ id \notin deleted /\ id \notin Range(created)

\* C8, as stated: a get, an update or a delete with an integer id that has
\* never been present is answered 404.
C8_Original ==
    \A h \in Handlers :
        /\ pc[h] = "respond" /\ Op(h) \in {"get", "update", "delete"}
        /\ AtoiOk(IdStr(h))
        /\ NeverPresent(Id(h))
        => status[h] = 404

\* The same, for the updates whose body parses only.
C8_ParsedAbsentAnswered404 ==
    \A h \in Handlers :
        /\ pc[h] = "respond" /\ Op(h) \in {"get", "update", "delete"}
        /\ AtoiOk(IdStr(h))
        /\ Op(h) = "update" => body[h].ok
        /\ NeverPresent(Id(h))
        => status[h] = 404

\* C8, as amended: a get, an update or a delete whose store operation finds
\* the id absent is answered 404 and leaves the items and the counter as
\* they were, as does the writing of that response; and a get or a delete
\* with an integer id, or an update with an integer id and a body that
\* parses, on an id that has never been present is answered 404.
C8_AbsentIdNotFound ==
    [][/\ \A h \in Handlers : Op(h) \in {"get", "update", "delete"} =>
            /\ Leaves(h, "in") /\ Id(h) \notin DOMAIN items =>
                    pc'[h] = "respond" /\ status'[h] = 404 /\ UNCHANGED store
            /\ Leaves(h, "respond") /\ status[h] = 404 => UNCHANGED store
       /\ C8_ParsedAbsentAnswered404']_vars

\* An update with a body that parses, on an id never present, is being
\* answered 404 and the store is as NewMemoryStore made it.
C8_Witness ==
    \E h \in Handlers :
        /\ Op(h) = "update" /\ pc[h] = "respond" /\ status[h] = 404
        /\ body[h].ok /\ NeverPresent(Id(h))
        /\ items = <<>> /\ nextID = 1

\* While a writer is inside the store, no other handler is.
MutualExclusion ==
    \A h \in Handlers : Inside(h) /\ IsWrite(h) => \A g \in Handlers \ {h} : ~Inside(g)

\* C9: after every step a writer inside the store is alone in it; while a
\* handler is inside, no step of another handler changes the items or the
\* counter; and the write of an update leaves the id with that update's
\* name and value, whatever updates ran before.
C9_WritersExclusive ==
    [][/\ MutualExclusion'
       /\ \A h, g \in Handlers : h # g /\ Inside(h) /\ Steps(g) => UNCHANGED store
       /\ \A h \in Handlers :
            Leaves(h, "in2") /\ Op(h) = "update" =>
                items'[Id(h)].Name = item[h].Name /\ items'[Id(h)].Value = item[h].Value]_vars

\* Two reads are inside the store at the same time.
C9_Witness ==
    \E h, g \in Handlers : h # g /\ Inside(h) /\ Inside(g) /\ IsRead(h) /\ IsRead(g)

\* A handler serving a write request waits for its client while it holds
\* the store's lock.
LockHeldAtClientIO == \E h \in Handlers : AtClientIO(h) /\ IsWrite(h) /\ HoldsLock(h)

====
